---- MODULE Spec2Model ----
(***************************************************************************)
(* Email-delivery task dispatcher of plunk.                                *)
(*                                                                         *)
(* Two versions of the Tasks controller are modelled:                      *)
(*   variant "A"  src/unnamed/part_009: per-minute / per-second fixed      *)
(*                buckets read and incremented in separate round trips,    *)
(*                sequential task loop, campaign reconciliation;           *)
(*   variant "B"  src/packages/api/src/controllers/Tasks.ts: per-second    *)
(*                sorted set and per-day counter behind one Lua script,    *)
(*                all claimed tasks processed concurrently.                *)
(* Every await of the code is one step of the model; the synchronous code  *)
(* that follows an await up to the next await belongs to the same step.    *)
(***************************************************************************)
EXTENDS Integers, Sequences, FiniteSets, TLC

\* ------------------------------------------------------------------------
\* Bounds of the model (the ceilings are imported from app/constants, which
\* sets deployment values; the model runs them scaled down).
MAX_EMAILS_PER_SECOND == 2
MAX_EMAILS_PER_MINUTE == 2
MaxTicks == 1
MaxInvocations == 2
MaxFaults == 3
MAX_EMAILS_PER_DAY == 3
BATCH_SIZE == 3
MAX_PARALLEL == 2

\* Program constants.
MAX_RETRIES == 3
MsPerSecond == 1000
MsPerMinute == 60000
SecondKeyTtl == 2
MinuteKeyTtl == 3600
MsPerDay == 86400000
RecentKeyTtl == 2
\* The runs start in the last second of a minute and of a (UTC) day.
StartMs == MsPerDay - MsPerSecond

Inst == {1, 2}
Task == {1, 2, 3}
Project == {"P1", "P2"}
Campaign == {"C1"}
\* The projects that are deleted while their tasks are still stored.
Vanishing == {"P1"}

VARIABLES
    variant,        \* "A" or "B": the controller version that is deployed
    now,            \* wall clock, in ms
    store,          \* counter store: key -> [n, exp]
    recent,         \* counter store, sorted set email:rate:recent: [members, exp]
    status,         \* task id -> PENDING | PROCESSING | COMPLETED | FAILED | DELETED
    projectExists,  \* project -> BOOLEAN
    campaign,       \* campaign -> [status, delivered, writes (DELIVERED updates made)]
    sends,          \* task id -> number of EmailService.send calls
    receipts,       \* task id -> number of Email rows created
    loc,            \* instance -> local state of its handleTasks invocation
    admits,         \* time (ms) -> number of reservations granted at that time
    faults,         \* store calls that have failed so far
    setup           \* [startCount: the minute counter when the dispatchers start,
                    \*  mayFail: the store calls that may fail,
                    \*  bare: the last task has neither an Action nor a Campaign]

vars == <<variant, now, store, recent, status, projectExists, campaign, sends, receipts, loc, admits,
         faults, setup>>

\* The task table: createdAt order is the order of the ids.
\*   kind "suppressed": an Action whose notevent the contact has triggered
\*   kind "campaign"  : a Campaign task
\*   kind "bare"      : action and campaign are both null
TaskProject(t) == IF t = 3 THEN "P2" ELSE "P1"
TaskKind(t) ==
    IF t = 1 THEN "suppressed"
    ELSE IF t = 3 /\ setup.bare THEN "bare"
    ELSE "campaign"
TaskCampaign(t) == IF TaskKind(t) = "campaign" THEN "C1" ELSE "none"


\* ------------------------------------------------------------------------
\* Counter store (redis): get, incr, expire.  A key that is absent reads 0.
Get(k) == IF k \in DOMAIN store THEN store[k].n ELSE 0

\* INCR k: a key that is absent is created at 1 with no expiration (exp -1);
\* a key that exists keeps its expiration.
Incr(s, k) ==
    [x \in DOMAIN s \cup {k} |->
        IF x = k
        THEN [n |-> (IF k \in DOMAIN s THEN s[k].n ELSE 0) + 1,
              exp |-> IF k \in DOMAIN s THEN s[k].exp ELSE -1]
        ELSE s[x]]

\* EXPIRE k ttl (seconds); a ttl that is not positive deletes the key.
\* A store in which EXPIRE has no effect.
ExpireIgnored(s, k, ttl) == s

Expire(s, k, ttl) ==
    IF k \notin DOMAIN s THEN s
    ELSE IF ttl <= 0 THEN [x \in DOMAIN s \ {k} |-> s[x]]
    ELSE [s EXCEPT ![k].exp = now + ttl * MsPerSecond]

\* INCR k followed by EXPIRE k ttl, as queued by the pipeline (lines 76-80).
IncrExpire(s, k, ttl) == Expire(Incr(s, k), k, ttl)

\* One more reservation granted at timestamp t.
Admit(a, t) ==
    [x \in DOMAIN a \cup {t} |->
        IF x = t THEN (IF t \in DOMAIN a THEN a[t] ELSE 0) + 1 ELSE a[x]]

EmptyRecent == [members |-> {}, exp |-> 0]

\* Keys that have not expired at time t.
Live(s, t) ==
    LET keep == {k \in DOMAIN s : s[k].exp = -1 \/ s[k].exp > t}
    IN  [k \in keep |-> s[k]]

\* toISOString().slice(0, 16) and .slice(0, 19): the minute and the second
\* the instant t falls in.
getMinuteKey(t) == <<"minute", t \div MsPerMinute>>
getSecondKey(t) == <<"second", t \div MsPerSecond>>

getCurrentMinuteCount == Get(getMinuteKey(now))
getCurrentSecondCount == Get(getSecondKey(now))

\* A call to the counter store or a status update of the task store may fail,
\* while fewer than setup.mayFail calls have failed.
FaultChoices == IF faults < setup.mayFail THEN BOOLEAN ELSE {FALSE}

Fail(f) == faults' = faults + (IF f THEN 1 ELSE 0)

\* Lines 41-44 and 52-55: when redis.get fails the count is reported as 0.
ReadCount(n, f) == IF f THEN 0 ELSE n

\* ------------------------------------------------------------------------
\* Task store (prisma).
Exists(t) == status[t] # "DELETED"

RECURSIVE SortedSeq(_)
SortedSeq(S) ==
    IF S = {} THEN <<>>
    ELSE LET m == CHOOSE x \in S : \A y \in S : x <= y
         IN  <<m>> \o SortedSeq(S \ {m})

Take(q, n) == IF Len(q) <= n THEN q ELSE SubSeq(q, 1, n)

\* findMany({where: {status: PENDING}, orderBy: createdAt asc, take: n})
findManyPending(n) == Take(SortedSeq({t \in Task : status[t] = "PENDING"}), n)

\* ------------------------------------------------------------------------
\* Local state of one handleTasks invocation.  Some fields only record what
\* the invocation did: skipped (the claimed tasks it obtained no reservation
\* for), cleaned (the tasks its project-vanish updateMany marked FAILED),
\* limited (it returned because the minute ceiling was reached), faulted (a
\* counter-store call failed inside the current canSendEmail call), threw
\* (the tasks whose send or receipt creation raised; sendThrew has those
\* whose send raised), settled (the tasks whose
\* COMPLETED or FAILED update it issued) and reconciled (the campaigns it ran
\* checkAndMarkCampaignsFinished for, each with the status findUnique read).
\* fields are the keys of the response; iters counts the iterations of the
\* while loop (line 128) made for the current task.
IdleLoc ==
    [pc |-> "idle", batch |-> <<>>, idx |-> 0, retries |-> 0, iters |-> 0, canSend |-> FALSE,
     processed |-> 0, completed |-> <<>>, cidx |-> 0,
     minuteKey |-> <<>>, secondKey |-> <<>>, wakeAt |-> 0, thr |-> <<>>,
     seen |-> "none", cnt |-> 0,
     skipped |-> {}, cleaned |-> {}, limited |-> FALSE, runs |-> 0, resp |-> "none",
     fields |-> {}, faulted |-> FALSE, threw |-> {}, sendThrew |-> {}, settled |-> {}, reconciled |-> {}]

Cur(i) == loc[i].batch[loc[i].idx]

SetLoc(i, l) == loc' = [loc EXCEPT ![i] = l]

\* res.status(200).json({success: true, processed, ...})
Respond(l) ==
    [l EXCEPT !.pc = "returned", !.resp = "ok", !.retries = 0, !.iters = 0, !.canSend = FALSE,
              !.minuteKey = <<>>, !.secondKey = <<>>, !.wakeAt = 0, !.cidx = 0,
              !.seen = "none", !.cnt = 0, !.faulted = FALSE,
              !.fields = {"success", "processed", "timestamp"}]

\* Line 107: the response to an empty batch.
RespondEmpty(l) == [Respond(l) EXCEPT !.fields = {"success", "processed"}]

\* Leaving the for loop (line 174): reconcile the campaigns collected.
AfterLoop(l) ==
    IF l.completed = <<>> THEN Respond(l)
    ELSE [l EXCEPT !.pc = "campFind", !.cidx = 1, !.retries = 0, !.iters = 0, !.canSend = FALSE]

\* The for loop moves to its next task.
NextTask(l) ==
    IF l.idx < Len(l.batch)
    THEN [l EXCEPT !.idx = @ + 1, !.pc = "loopMinute", !.retries = 0, !.iters = 0, !.canSend = FALSE,
                   !.faulted = FALSE]
    ELSE AfterLoop(l)


\* Lines 115-121 and 130-136: the minute ceiling is found reached; the
\* response is sent at once, with the count processed so far.
MinuteLimitReturn(l) ==
    [Respond(l) EXCEPT !.limited = TRUE,
                       !.skipped = @ \cup {l.batch[k] : k \in l.idx..Len(l.batch)}]

\* Line 160: a task without a reservation is skipped, the others go on to
\* processSingleTask.
ReservationGate(l) ==
    IF l.canSend
    THEN [l EXCEPT !.pc = "markProcessing"]
    ELSE NextTask(l)

\* A dispatcher that goes on to process the task after a refused reservation.
DeniedProceeds(l) ==
    [l EXCEPT !.retries = @ + 1, !.pc = "markProcessing",
              !.minuteKey = <<>>, !.secondKey = <<>>]

\* canSendEmail returned false (lines 147-157): one more retry, then give up.
Denied(l) ==
    IF l.retries + 1 < MAX_RETRIES
    THEN [l EXCEPT !.retries = @ + 1, !.pc = "whileMinute",
                   !.minuteKey = <<>>, !.secondKey = <<>>]
    ELSE ReservationGate([l EXCEPT !.retries = @ + 1,
                                   !.minuteKey = <<>>, !.secondKey = <<>>,
                                   !.skipped = @ \cup {l.batch[l.idx]}])

\* canSendEmail returned true (lines 146-149).
Granted(l) ==
    ReservationGate([l EXCEPT !.canSend = TRUE, !.minuteKey = <<>>, !.secondKey = <<>>])

\* ------------------------------------------------------------------------
\* Invocations of handleTasks started so far, by all instances.
RECURSIVE SumRuns(_)
SumRuns(S) ==
    IF S = {} THEN 0
    ELSE LET i == CHOOSE x \in S : TRUE IN loc[i].runs + SumRuns(S \ {i})

Invocations == SumRuns(Inst)

\* Instances are numbered in the order of their first invocation.
FirstCome(i) == \A j \in Inst : j < i => loc[j].runs > 0

\* Variant A, handleTasks: the claim of a batch (lines 95-111).
Invoke(i) ==
    /\ variant = "A"
    /\ loc[i].pc \in {"idle", "returned"}
    /\ Invocations < MaxInvocations
    /\ FirstCome(i)
    /\ LET tasks == findManyPending(MAX_EMAILS_PER_MINUTE)
           fresh == [IdleLoc EXCEPT !.runs = loc[i].runs + 1, !.batch = tasks]
       IN  IF tasks = <<>>
           THEN SetLoc(i, RespondEmpty(fresh))
           ELSE SetLoc(i, [fresh EXCEPT !.pc = "loopMinute", !.idx = 1])
    /\ UNCHANGED <<variant, recent, now, store, status, projectExists, campaign, sends, receipts, admits, faults, setup>>

\* Line 114: the minute count read at the head of the for loop.
\* A dispatcher that marks the task PROCESSING before it looks at the ceiling.
LoopMinuteMarksFirst(i) ==
    /\ loc[i].pc = "loopMinute"
    /\ status' = [status EXCEPT ![Cur(i)] = IF Exists(Cur(i)) THEN "PROCESSING" ELSE @]
    /\ IF getCurrentMinuteCount >= MAX_EMAILS_PER_MINUTE
       THEN SetLoc(i, MinuteLimitReturn(loc[i]))
       ELSE SetLoc(i, [loc[i] EXCEPT !.pc = "whileMinute"])
    /\ UNCHANGED <<variant, recent, now, store, projectExists, campaign, sends, receipts, admits, faults, setup>>

LoopMinute(i) ==
    /\ loc[i].pc = "loopMinute"
    /\ \E f \in FaultChoices :
          /\ Fail(f)
          /\ IF ReadCount(getCurrentMinuteCount, f) >= MAX_EMAILS_PER_MINUTE
             THEN SetLoc(i, MinuteLimitReturn(loc[i]))
             ELSE SetLoc(i, [loc[i] EXCEPT !.pc = "whileMinute"])
    /\ UNCHANGED <<variant, recent, now, store, status, projectExists, campaign, sends, receipts, admits, setup>>

\* Line 129: the minute count read at the head of the retry loop.
WhileMinute(i) ==
    /\ loc[i].pc = "whileMinute"
    /\ \E f \in FaultChoices :
          /\ Fail(f)
          /\ IF ReadCount(getCurrentMinuteCount, f) >= MAX_EMAILS_PER_MINUTE
             THEN SetLoc(i, MinuteLimitReturn(loc[i]))
             ELSE SetLoc(i, [loc[i] EXCEPT !.pc = "whileSecond", !.iters = @ + 1])
    /\ UNCHANGED <<variant, recent, now, store, status, projectExists, campaign, sends, receipts, admits, setup>>

\* Line 139: the second count; a full second is waited out (no retry is
\* counted), otherwise canSendEmail is entered and computes its keys
\* (lines 60-61) before its first await.
WhileSecond(i) ==
    /\ loc[i].pc = "whileSecond"
    /\ \E f \in FaultChoices :
          /\ Fail(f)
          /\ IF ReadCount(getCurrentSecondCount, f) >= MAX_EMAILS_PER_SECOND
             THEN SetLoc(i, [loc[i] EXCEPT !.pc = "sleep", !.wakeAt = now + MsPerSecond])
             ELSE SetLoc(i, [loc[i] EXCEPT !.pc = "csMinute", !.faulted = FALSE,
                                           !.minuteKey = getMinuteKey(now),
                                           !.secondKey = getSecondKey(now)])
    /\ UNCHANGED <<variant, recent, now, store, status, projectExists, campaign, sends, receipts, admits, setup>>

\* Line 142: setTimeout(resolve, 1000), then continue.
Sleep(i) ==
    /\ loc[i].pc = "sleep"
    /\ now >= loc[i].wakeAt
    /\ SetLoc(i, [loc[i] EXCEPT !.pc = "whileMinute", !.wakeAt = 0])
    /\ UNCHANGED <<variant, recent, now, store, status, projectExists, campaign, sends, receipts, admits, faults, setup>>

\* canSendEmail, line 64: the minute check.  A failed read is caught inside
\* getCurrentMinuteCount, which then reports 0.
CsMinute(i) ==
    /\ loc[i].pc = "csMinute"
    /\ \E f \in FaultChoices :
          /\ Fail(f)
          /\ IF ReadCount(getCurrentMinuteCount, f) >= MAX_EMAILS_PER_MINUTE
             THEN SetLoc(i, Denied(loc[i]))
             ELSE SetLoc(i, [loc[i] EXCEPT !.pc = "csSecond", !.faulted = @ \/ f])
    /\ UNCHANGED <<variant, recent, now, store, status, projectExists, campaign, sends, receipts, admits, setup>>

\* canSendEmail, line 70: the second check.
CsSecond(i) ==
    /\ loc[i].pc = "csSecond"
    /\ \E f \in FaultChoices :
          /\ Fail(f)
          /\ IF ReadCount(getCurrentSecondCount, f) >= MAX_EMAILS_PER_SECOND
             THEN SetLoc(i, Denied(loc[i]))
             ELSE SetLoc(i, [loc[i] EXCEPT !.pc = "csExec", !.faulted = @ \/ f])
    /\ UNCHANGED <<variant, recent, now, store, status, projectExists, campaign, sends, receipts, admits, setup>>

\* canSendEmail, lines 76-84: the pipeline increments both keys computed on
\* entry and sets their expirations; the call returns true.  When the
\* pipeline fails nothing is written and the catch (lines 85-88) returns false.
CsExec(i) ==
    /\ loc[i].pc = "csExec"
    /\ \E f \in FaultChoices :
          /\ Fail(f)
          /\ IF f
             THEN /\ SetLoc(i, Denied(loc[i]))
                  /\ UNCHANGED <<store, admits>>
             ELSE /\ store' = IncrExpire(IncrExpire(store, loc[i].minuteKey, MinuteKeyTtl),
                                         loc[i].secondKey, SecondKeyTtl)
                  /\ admits' = Admit(admits, now)
                  /\ SetLoc(i, Granted(loc[i]))
    /\ UNCHANGED <<variant, recent, now, status, projectExists, campaign, sends, receipts, setup>>


\* ------------------------------------------------------------------------
\* Variant A, processSingleTask (lines 186-212) and processTask (247-357).

\* notevents.length > 0 (line 282)
HasNotevents(t) == TaskKind(t) = "suppressed"

\* A dispatcher that never finds the suppression event among the triggers.
NoteventNeverTriggered(t) == FALSE

\* notevents.some(e => triggers.some(...)) (line 284)
NoteventTriggered(t) == TaskKind(t) = "suppressed"

\* task.campaignId of the task object fetched by findMany
CampaignIdOf(t) == TaskCampaign(t)

Append1(q, c) == IF \E k \in 1..Len(q) : q[k] = c THEN q ELSE Append(q, c)

\* Lines 166-170: processSingleTask returned; wasCompleted says how.
Settled(l, wasCompleted) ==
    LET t == l.batch[l.idx]
        l1 == [l EXCEPT !.processed = @ + 1,
                        !.completed = IF wasCompleted /\ CampaignIdOf(t) # "none"
                                      THEN Append1(@, CampaignIdOf(t)) ELSE @]
    IN  NextTask(l1)

\* Lines 171-173: processSingleTask threw; the loop goes on.
\* A dispatcher that counts the task whose processing threw.
ThrownCounted(l) == NextTask([l EXCEPT !.processed = @ + 1])

Thrown(l) == NextTask(l)

\* A dispatcher whose first update does not record PROCESSING.
MarkProcessingOmitted(i) ==
    /\ loc[i].pc = "markProcessing"
    /\ SetLoc(i, [loc[i] EXCEPT !.pc = IF Exists(Cur(i)) THEN "projLookup" ELSE "markFailed"])
    /\ UNCHANGED <<variant, recent, now, store, status, projectExists, campaign, sends, receipts, admits, faults, setup>>

\* Line 188: update status PROCESSING; a missing row or a failing database
\* call makes update throw.
MarkProcessing(i) ==
    /\ loc[i].pc = "markProcessing"
    /\ \E f \in FaultChoices :
          /\ Fail(f)
          /\ IF Exists(Cur(i)) /\ ~f
             THEN /\ status' = [status EXCEPT ![Cur(i)] = "PROCESSING"]
                  /\ SetLoc(i, [loc[i] EXCEPT !.pc = "projLookup"])
             ELSE /\ SetLoc(i, [loc[i] EXCEPT !.pc = "markFailed"])
                  /\ UNCHANGED status
    /\ UNCHANGED <<variant, recent, now, store, projectExists, campaign, sends, receipts, admits, setup>>

\* Where processTask goes once the project is known to exist (lines 279-316).
AfterProject(t) == IF HasNotevents(t) THEN "triggers" ELSE "send"

\* Line 250: ProjectService.id(contact.projectId).
ProjLookup(i) ==
    /\ loc[i].pc = "projLookup"
    /\ IF projectExists[TaskProject(Cur(i))]
       THEN SetLoc(i, [loc[i] EXCEPT !.pc = AfterProject(Cur(i))])
       ELSE SetLoc(i, [loc[i] EXCEPT !.pc = "updateMany"])
    /\ UNCHANGED <<variant, recent, now, store, status, projectExists, campaign, sends, receipts, admits, faults, setup>>

\* updateMany({where: {contact: {projectId}, status: PENDING}, data: FAILED})
BulkFailed(st, p) == {t \in Task : TaskProject(t) = p /\ st[t] = "PENDING"}

\* An updateMany without the status filter.
BulkFailAnyStatus(st, p) ==
    [t \in Task |-> IF TaskProject(t) = p /\ st[t] # "DELETED" THEN "FAILED" ELSE st[t]]

BulkFail(st, p) ==
    [t \in Task |-> IF t \in BulkFailed(st, p) THEN "FAILED" ELSE st[t]]

\* deleteMany({where: {contact: {projectId}}})
\* A cleanup whose deleteMany removes nothing.
BulkDeleteNothing(st, p) == st

BulkDelete(st, p) ==
    [t \in Task |-> IF TaskProject(t) = p THEN "DELETED" ELSE st[t]]

\* Lines 253-263.
UpdateMany(i) ==
    /\ loc[i].pc = "updateMany"
    /\ status' = BulkFail(status, TaskProject(Cur(i)))
    /\ SetLoc(i, [loc[i] EXCEPT !.pc = "deleteMany",
                                !.cleaned = @ \cup BulkFailed(status, TaskProject(Cur(i)))])
    /\ UNCHANGED <<variant, recent, now, store, projectExists, campaign, sends, receipts, admits, faults, setup>>

\* Lines 264-271: the rows are deleted and processTask returns.
DeleteMany(i) ==
    /\ loc[i].pc = "deleteMany"
    /\ status' = BulkDelete(status, TaskProject(Cur(i)))
    /\ SetLoc(i, [loc[i] EXCEPT !.pc = "markCompleted"])
    /\ UNCHANGED <<variant, recent, now, store, projectExists, campaign, sends, receipts, admits, faults, setup>>

\* Lines 283-286: ContactService.triggers; a triggered notevent returns.
Triggers(i) ==
    /\ loc[i].pc = "triggers"
    /\ IF NoteventTriggered(Cur(i))
       THEN SetLoc(i, [loc[i] EXCEPT !.pc = "markCompleted"])
       ELSE SetLoc(i, [loc[i] EXCEPT !.pc = "send"])
    /\ UNCHANGED <<variant, recent, now, store, status, projectExists, campaign, sends, receipts, admits, faults, setup>>

\* Line 316: EmailService.send resolves or rejects.
Send(i) ==
    /\ loc[i].pc = "send"
    /\ sends' = [sends EXCEPT ![Cur(i)] = @ + 1]
    /\ \E ok \in BOOLEAN :
          SetLoc(i, [loc[i] EXCEPT !.pc = IF ok THEN "createEmail" ELSE "markFailed",
                                   !.threw = IF ok THEN @ ELSE @ \cup {Cur(i)},
                                   !.sendThrew = IF ok THEN @ ELSE @ \cup {Cur(i)}])
    /\ UNCHANGED <<variant, recent, now, store, status, projectExists, campaign, receipts, admits, faults, setup>>

\* Line 356: prisma.email.create resolves or rejects.
\* A dispatcher that completes the task without storing the Email row.
CreateEmailOmitted(i) ==
    /\ loc[i].pc = "createEmail"
    /\ SetLoc(i, [loc[i] EXCEPT !.pc = "markCompleted"])
    /\ UNCHANGED <<variant, recent, now, store, status, projectExists, campaign, sends, receipts, admits, faults, setup>>

CreateEmail(i) ==
    /\ loc[i].pc = "createEmail"
    /\ \E ok \in BOOLEAN :
          IF ok
          THEN /\ receipts' = [receipts EXCEPT ![Cur(i)] = @ + 1]
               /\ SetLoc(i, [loc[i] EXCEPT !.pc = "markCompleted"])
          ELSE /\ UNCHANGED receipts
               /\ SetLoc(i, [loc[i] EXCEPT !.pc = "markFailed", !.threw = @ \cup {Cur(i)}])
    /\ UNCHANGED <<variant, recent, now, store, status, projectExists, campaign, sends, admits, faults, setup>>

\* Lines 195-200: update status COMPLETED, return true.
MarkCompleted(i) ==
    /\ loc[i].pc = "markCompleted"
    /\ \E f \in FaultChoices :
          /\ Fail(f)
          /\ IF Exists(Cur(i)) /\ ~f
             THEN /\ status' = [status EXCEPT ![Cur(i)] = "COMPLETED"]
                  /\ SetLoc(i, Settled([loc[i] EXCEPT !.settled = @ \cup {Cur(i)}], TRUE))
             ELSE /\ SetLoc(i, [loc[i] EXCEPT !.pc = "markFailed"])
                  /\ UNCHANGED status
    /\ UNCHANGED <<variant, recent, now, store, projectExists, campaign, sends, receipts, admits, setup>>

\* Lines 201-211: the catch block updates status FAILED and returns false;
\* if that update throws too, the error reaches handleTasks (line 171).
\* A dispatcher whose catch block records FAILED and ends the invocation.
MarkFailedAborts(i) ==
    /\ loc[i].pc = "markFailed"
    /\ IF Exists(Cur(i))
       THEN status' = [status EXCEPT ![Cur(i)] = "FAILED"]
       ELSE UNCHANGED status
    /\ SetLoc(i, Respond(loc[i]))
    /\ UNCHANGED <<variant, recent, now, store, projectExists, campaign, sends, receipts, admits, faults, setup>>

MarkFailed(i) ==
    /\ loc[i].pc = "markFailed"
    /\ \E f \in FaultChoices :
          /\ Fail(f)
          /\ IF Exists(Cur(i)) /\ ~f
             THEN /\ status' = [status EXCEPT ![Cur(i)] = "FAILED"]
                  /\ SetLoc(i, Settled([loc[i] EXCEPT !.settled = @ \cup {Cur(i)}], FALSE))
             ELSE /\ SetLoc(i, Thrown(loc[i]))
                  /\ UNCHANGED status
    /\ UNCHANGED <<variant, recent, now, store, projectExists, campaign, sends, receipts, admits, setup>>

\* ------------------------------------------------------------------------
\* Variant A, checkAndMarkCampaignsFinished (lines 214-245).
NextCampaign(l) ==
    IF l.cidx < Len(l.completed)
    THEN [l EXCEPT !.cidx = @ + 1, !.pc = "campFind", !.seen = "none", !.cnt = 0]
    ELSE Respond(l)

CurCampaign(i) == loc[i].completed[loc[i].cidx]

\* Line 221: the campaigns the loop passes over.
\* A reconciler that skips only the campaigns it does not find.
SkipMissingOnly(st) == st = "MISSING"

SkipCampaign(st) == st \in {"MISSING", "DELIVERED"}

\* Lines 216-223: findUnique.
CampFind(i) ==
    /\ loc[i].pc = "campFind"
    /\ LET st == campaign[CurCampaign(i)].status
       IN  IF SkipCampaign(st)
           THEN SetLoc(i, NextCampaign([loc[i] EXCEPT !.reconciled = @ \cup {<<CurCampaign(i), st>>}]))
           ELSE SetLoc(i, [loc[i] EXCEPT !.pc = "campCount", !.seen = st,
                                         !.reconciled = @ \cup {<<CurCampaign(i), st>>}])
    /\ UNCHANGED <<variant, recent, now, store, status, projectExists, campaign, sends, receipts, admits, faults, setup>>

\* task.count({where: {campaignId, status in [PENDING, PROCESSING]}})
countOutstanding(c) ==
    Cardinality({t \in Task : CampaignIdOf(t) = c /\ status[t] \in {"PENDING", "PROCESSING"}})

\* A reconciler that does not look at the count.
ShouldMarkAlways(n) == TRUE

\* Line 234: if (pendingTasks === 0)
ShouldMarkDelivered(n) == n = 0

\* Lines 225-234.
CampCount(i) ==
    /\ loc[i].pc = "campCount"
    /\ LET n == countOutstanding(CurCampaign(i))
       IN  IF ShouldMarkDelivered(n)
           THEN SetLoc(i, [loc[i] EXCEPT !.pc = "campUpdate", !.cnt = n])
           ELSE SetLoc(i, NextCampaign(loc[i]))
    /\ UNCHANGED <<variant, recent, now, store, status, projectExists, campaign, sends, receipts, admits, faults, setup>>

\* Lines 235-241: campaign.update; a missing row makes update throw, and
\* nothing in handleTasks catches it.
CampUpdate(i) ==
    /\ loc[i].pc = "campUpdate"
    /\ IF campaign[CurCampaign(i)].status # "MISSING"
       THEN /\ campaign' = [campaign EXCEPT ![CurCampaign(i)] =
                               [status |-> "DELIVERED", delivered |-> now,
                                writes |-> campaign[CurCampaign(i)].writes + 1]]
            /\ SetLoc(i, NextCampaign(loc[i]))
       ELSE /\ UNCHANGED campaign
            /\ SetLoc(i, [Respond(loc[i]) EXCEPT !.resp = "error", !.fields = {}])
    /\ UNCHANGED <<variant, recent, now, store, status, projectExists, sends, receipts, admits, faults, setup>>

\* ------------------------------------------------------------------------
\* Environment.
\* The clock moves on; the counter store drops the keys that have expired.
\* Variant A reads the clock to the second only.
TickSteps == IF variant = "A" THEN {MsPerSecond} ELSE {1, MsPerSecond}

Tick ==
    /\ \E d \in TickSteps :
          /\ d < MsPerSecond => now % MsPerSecond = 0
          /\ now + d <= StartMs + MaxTicks * MsPerSecond
          /\ now' = now + d
    /\ store' = Live(store, now')
    /\ recent' = IF recent.exp > now' THEN recent ELSE EmptyRecent
    /\ UNCHANGED <<variant, status, projectExists, campaign, sends, receipts, loc, admits, faults, setup>>

\* A project is deleted while tasks of its contacts are still stored.
DeleteProject(p) ==
    /\ projectExists[p]
    /\ projectExists' = [projectExists EXCEPT ![p] = FALSE]
    /\ UNCHANGED <<variant, recent, now, store, status, campaign, sends, receipts, loc, admits, faults, setup>>

DeleteCampaign(c) ==
    /\ campaign[c].status # "MISSING"
    /\ campaign' = [campaign EXCEPT ![c] = [status |-> "MISSING", delivered |-> 0, writes |-> 0]]
    /\ UNCHANGED <<variant, recent, now, store, status, projectExists, sends, receipts, loc, admits, faults, setup>>

\* ------------------------------------------------------------------------
\* Variant B, the rate limiter (Tasks.ts lines 20-112).

\* getDailyKey: the UTC date of the instant t.
getDailyKey(t) == <<"daily", t \div MsPerDay>>

\* Lines 91-94: whole seconds from t to the next midnight.
secondsUntilMidnight(t) == (MsPerDay - (t % MsPerDay)) \div MsPerSecond

\* ZCOUNT recentKey lo hi
zcount(r, lo, hi) == Cardinality({m \in r.members : lo <= m /\ m <= hi})

\* RATE_LIMIT_SCRIPT, lines 28-38: 1 when both windows have headroom.
ScriptAdmits(t) ==
    /\ Get(getDailyKey(t)) < MAX_EMAILS_PER_DAY
    /\ zcount(recent, t - MsPerSecond, t) < MAX_EMAILS_PER_SECOND

\* Lines 40-41 and 48: ZADD now tostring(now), EXPIRE 2, ZREMRANGEBYSCORE 0 now-1000.
\* The member is the timestamp itself: adding it again leaves one member.
ScriptRecent(r, t) ==
    [members |-> {m \in r.members \cup {t} : m > t - MsPerSecond},
     exp |-> now + RecentKeyTtl * MsPerSecond]

\* Lines 43-46: INCR dailyKey, and EXPIRE only when the key was just created.
\* EXPIRE with a ttl of 0 deletes the key.
ScriptDaily(s, t) ==
    LET k == getDailyKey(t)
        s1 == Incr(s, k)
    IN  IF s1[k].n = 1 THEN Expire(s1, k, secondsUntilMidnight(t)) ELSE s1

\* ------------------------------------------------------------------------
\* Variant B, handleTasks (lines 114-150) and processBatch (152-182).
\* Every task of every group starts at once: processBatch is called for
\* each group without awaiting the one before.

\* findMany({where: {runBy <= now, PENDING}, orderBy: runBy, take: BATCH_SIZE});
\* every task of the table is due.
findManyDue(n) == findManyPending(n)

SeqToSet(q) == {q[k] : k \in 1..Len(q)}

\* tasks.slice(i, i + MAX_PARALLEL) for i = 0, MAX_PARALLEL, ...: the group
\* a task of the batch falls in.
GroupOf(q, t) ==
    LET k == CHOOSE j \in 1..Len(q) : q[j] = t
    IN  (k - 1) \div MAX_PARALLEL

\* rsv: the answer of tryRecordEmailSent, once it has been asked.
NewThread == [pc |-> "markProcessing", nowArg |-> 0, rsv |-> "none"]

\* Bound of the model: invocations of variant B do not overlap (the tasks
\* of one invocation already run concurrently with each other).
InvokeB(i) ==
    /\ variant = "B"
    /\ loc[i].pc \in {"idle", "returned"}
    /\ \A j \in Inst : loc[j].pc # "running"
    /\ Invocations < MaxInvocations
    /\ FirstCome(i)
    /\ LET tasks == findManyDue(BATCH_SIZE)
           fresh == [IdleLoc EXCEPT !.runs = loc[i].runs + 1, !.batch = tasks]
       IN  IF tasks = <<>>
           THEN SetLoc(i, Respond(fresh))
           ELSE SetLoc(i, [fresh EXCEPT !.pc = "running",
                                        !.thr = [t \in SeqToSet(tasks) |-> NewThread]])
    /\ UNCHANGED <<variant, recent, now, store, status, projectExists, campaign, sends, receipts, admits, faults, setup>>

At(i, t, p) ==
    /\ loc[i].pc = "running"
    /\ t \in DOMAIN loc[i].thr
    /\ loc[i].thr[t].pc = p

Go(i, t, p) == loc' = [loc EXCEPT ![i].thr[t].pc = p]

\* The callback of task t ends with its final status written.
GoSettled(i, t) ==
    loc' = [loc EXCEPT ![i] = [@ EXCEPT !.thr[t].pc = "done", !.settled = @ \cup {t}]]

\* Lines 155-160.
MarkProcessingB(i, t) ==
    /\ At(i, t, "markProcessing")
    /\ IF Exists(t)
       THEN /\ status' = [status EXCEPT ![t] = "PROCESSING"]
            /\ Go(i, t, "projLookup")
       ELSE /\ Go(i, t, "markFailed")
            /\ UNCHANGED status
    /\ UNCHANGED <<variant, recent, now, store, projectExists, campaign, sends, receipts, admits, faults, setup>>

\* Line 187; when the project exists tryRecordEmailSent is entered and reads
\* the clock (lines 87-94) before its await.
ProjLookupB(i, t) ==
    /\ At(i, t, "projLookup")
    /\ IF projectExists[TaskProject(t)]
       THEN loc' = [loc EXCEPT ![i].thr[t] = [@ EXCEPT !.pc = "tryRecord", !.nowArg = now]]
       ELSE Go(i, t, "updateMany")
    /\ UNCHANGED <<variant, recent, now, store, status, projectExists, campaign, sends, receipts, admits, faults, setup>>

\* Lines 190-200.
UpdateManyB(i, t) ==
    /\ At(i, t, "updateMany")
    /\ status' = BulkFail(status, TaskProject(t))
    /\ loc' = [loc EXCEPT ![i] = [@ EXCEPT !.thr[t].pc = "deleteMany",
                                          !.cleaned = @ \cup BulkFailed(status, TaskProject(t))]]
    /\ UNCHANGED <<variant, recent, now, store, projectExists, campaign, sends, receipts, admits, faults, setup>>

\* Lines 201-208.
DeleteManyB(i, t) ==
    /\ At(i, t, "deleteMany")
    /\ status' = BulkDelete(status, TaskProject(t))
    /\ Go(i, t, "markCompleted")
    /\ UNCHANGED <<variant, recent, now, store, projectExists, campaign, sends, receipts, admits, faults, setup>>

\* Lines 226-263: a triggered notevent returns, anything else is sent.
\* (ContactService.triggers reads the triggers, which the dispatcher never
\* changes; the await is folded into the step before it.)
AfterReservation(t) ==
    IF HasNotevents(t) /\ NoteventTriggered(t) THEN "markCompleted" ELSE "send"

\* Lines 211-219: with the script's answer processTask goes on, or reads the
\* two counts for its log line and throws Error("Rate limit exceeded").
AfterScript(t, ok) == IF ok THEN AfterReservation(t) ELSE "markFailed"

\* Lines 96-107: redis.eval runs the script in one step.
TryRecord(i, t) ==
    /\ At(i, t, "tryRecord")
    /\ LET ts == loc[i].thr[t].nowArg
           ok == ScriptAdmits(ts)
       IN  /\ IF ok
              THEN /\ recent' = ScriptRecent(recent, ts)
                   /\ store' = ScriptDaily(store, ts)
                   /\ admits' = Admit(admits, ts)
              ELSE UNCHANGED <<recent, store, admits>>
           /\ loc' = [loc EXCEPT ![i].thr[t] =
                         [@ EXCEPT !.pc = AfterScript(t, ok), !.nowArg = 0,
                                   !.rsv = IF ok THEN "granted" ELSE "denied"]]
    /\ UNCHANGED <<variant, now, status, projectExists, campaign, sends, receipts, faults, setup>>

\* Line 263.
SendB(i, t) ==
    /\ At(i, t, "send")
    /\ sends' = [sends EXCEPT ![t] = @ + 1]
    /\ \E ok \in BOOLEAN :
          loc' = [loc EXCEPT ![i] =
                     [@ EXCEPT !.thr[t].pc = IF ok THEN "createEmail" ELSE "markFailed",
                               !.threw = IF ok THEN @ ELSE @ \cup {t},
                               !.sendThrew = IF ok THEN @ ELSE @ \cup {t}]]
    /\ UNCHANGED <<variant, recent, now, store, status, projectExists, campaign, receipts, admits, faults, setup>>

\* Line 303.
CreateEmailB(i, t) ==
    /\ At(i, t, "createEmail")
    /\ \E ok \in BOOLEAN :
          IF ok
          THEN /\ receipts' = [receipts EXCEPT ![t] = @ + 1]
               /\ Go(i, t, "markCompleted")
          ELSE /\ UNCHANGED receipts
               /\ loc' = [loc EXCEPT ![i] = [@ EXCEPT !.thr[t].pc = "markFailed",
                                                     !.threw = @ \cup {t}]]
    /\ UNCHANGED <<variant, recent, now, store, status, projectExists, campaign, sends, admits, faults, setup>>

\* Lines 162-168.
MarkCompletedB(i, t) ==
    /\ At(i, t, "markCompleted")
    /\ IF Exists(t)
       THEN /\ status' = [status EXCEPT ![t] = "COMPLETED"]
            /\ GoSettled(i, t)
       ELSE /\ Go(i, t, "markFailed")
            /\ UNCHANGED status
    /\ UNCHANGED <<variant, recent, now, store, projectExists, campaign, sends, receipts, admits, faults, setup>>

\* Lines 169-178: the catch block; if its update throws the task's promise
\* rejects, which Promise.allSettled absorbs.
MarkFailedB(i, t) ==
    /\ At(i, t, "markFailed")
    /\ IF Exists(t)
       THEN /\ status' = [status EXCEPT ![t] = "FAILED"]
            /\ GoSettled(i, t)
       ELSE /\ UNCHANGED status
            /\ Go(i, t, "done")
    /\ UNCHANGED <<variant, recent, now, store, projectExists, campaign, sends, receipts, admits, faults, setup>>

\* Lines 141-149: every promise has settled; processed is tasks.length.
RespondB(i) ==
    /\ loc[i].pc = "running"
    /\ \A t \in DOMAIN loc[i].thr : loc[i].thr[t].pc = "done"
    /\ SetLoc(i, [Respond(loc[i]) EXCEPT !.processed = Len(loc[i].batch)])
    /\ UNCHANGED <<variant, recent, now, store, status, projectExists, campaign, sends, receipts, admits, faults, setup>>

\* ------------------------------------------------------------------------
\* The minute counter may already hold reservations made earlier in the
\* minute (getCurrentMinuteCount reads it, lines 36-45).
InitialStore(c) ==
    IF c = 0 THEN << >>
    ELSE (getMinuteKey(StartMs) :> [n |-> c, exp |-> StartMs + MinuteKeyTtl * MsPerSecond])

\* The stored tasks: tasks 2 and 3 are PENDING; the task with the triggered
\* suppression event is PENDING or was never created.
InitialTasks ==
    {st \in [Task -> {"PENDING", "DELETED"}] :
        \A t \in Task : st[t] = "DELETED" => TaskKind(t) = "suppressed"}

\* What every start has in common.
InitRest ==
    /\ now = StartMs
    /\ store = InitialStore(setup.startCount)
    /\ faults = 0
    /\ recent = EmptyRecent
    /\ projectExists = [p \in Project |-> TRUE]
    /\ campaign = [c \in Campaign |-> [status |-> "SENDING", delivered |-> 0, writes |-> 0]]
    /\ sends = [t \in Task |-> 0]
    /\ receipts = [t \in Task |-> 0]
    /\ loc = [i \in Inst |-> IdleLoc]
    /\ admits = << >>

\* Empty counters, every task PENDING, a counter store that answers.
Init ==
    /\ variant \in {"A", "B"}
    /\ setup = [startCount |-> 0, mayFail |-> 0, bare |-> FALSE]
    /\ status = [t \in Task |-> "PENDING"]
    /\ InitRest

\* One dispatcher instance of variant A on its own: the minute counter starts
\* anywhere up to its ceiling, the suppressed task may be absent, and calls
\* to the counter store may fail.
InitSolo ==
    /\ variant = "A"
    /\ setup \in [startCount : 0..MAX_EMAILS_PER_MINUTE, mayFail : {MaxFaults}, bare : BOOLEAN]
    /\ status \in InitialTasks
    /\ InitRest

NextA ==
    \/ \E i \in Inst : Invoke(i)
    \/ \E i \in Inst : LoopMinute(i)
    \/ \E i \in Inst : WhileMinute(i)
    \/ \E i \in Inst : WhileSecond(i)
    \/ \E i \in Inst : Sleep(i)
    \/ \E i \in Inst : CsMinute(i)
    \/ \E i \in Inst : CsSecond(i)
    \/ \E i \in Inst : CsExec(i)
    \/ \E i \in Inst : MarkProcessing(i)
    \/ \E i \in Inst : ProjLookup(i)
    \/ \E i \in Inst : UpdateMany(i)
    \/ \E i \in Inst : DeleteMany(i)
    \/ \E i \in Inst : Triggers(i)
    \/ \E i \in Inst : Send(i)
    \/ \E i \in Inst : CreateEmail(i)
    \/ \E i \in Inst : MarkCompleted(i)
    \/ \E i \in Inst : MarkFailed(i)
    \/ \E i \in Inst : CampFind(i)
    \/ \E i \in Inst : CampCount(i)
    \/ \E i \in Inst : CampUpdate(i)
    \/ Tick
    \/ \E p \in Vanishing : DeleteProject(p)
    \/ \E c \in Campaign : DeleteCampaign(c)

NextB ==
    \/ \E i \in Inst : InvokeB(i)
    \/ \E i \in Inst, t \in Task : MarkProcessingB(i, t)
    \/ \E i \in Inst, t \in Task : ProjLookupB(i, t)
    \/ \E i \in Inst, t \in Task : UpdateManyB(i, t)
    \/ \E i \in Inst, t \in Task : DeleteManyB(i, t)
    \/ \E i \in Inst, t \in Task : TryRecord(i, t)
    \/ \E i \in Inst, t \in Task : SendB(i, t)
    \/ \E i \in Inst, t \in Task : CreateEmailB(i, t)
    \/ \E i \in Inst, t \in Task : MarkCompletedB(i, t)
    \/ \E i \in Inst, t \in Task : MarkFailedB(i, t)
    \/ \E i \in Inst : RespondB(i)
    \/ Tick
    \/ \E p \in Vanishing : DeleteProject(p)

InitA == Init /\ variant = "A"
InitB == Init /\ variant = "B"

\* The per-minute / per-second dispatcher.
SpecA == InitA /\ [][NextA]_vars

\* One step of instance i's handleTasks: the dispatcher itself, without the
\* deletions made by other parts of the application.
StepA(i) ==
    \/ Invoke(i) \/ LoopMinute(i) \/ WhileMinute(i) \/ WhileSecond(i) \/ Sleep(i)
    \/ CsMinute(i) \/ CsSecond(i) \/ CsExec(i)
    \/ MarkProcessing(i) \/ ProjLookup(i) \/ UpdateMany(i) \/ DeleteMany(i)
    \/ Triggers(i) \/ Send(i) \/ CreateEmail(i) \/ MarkCompleted(i) \/ MarkFailed(i)
    \/ CampFind(i) \/ CampCount(i) \/ CampUpdate(i)

\* The same dispatcher, where time passes and every handleTasks step and
\* every invocation that can be made is eventually made.
FairSpecA == SpecA /\ WF_vars(Tick \/ \E i \in Inst : StepA(i))

\* The per-second / per-day dispatcher.
SpecB == InitB /\ [][NextB]_vars

\* The per-minute / per-second dispatcher run by one instance.  An instance
\* on its own never finds the second full while the minute has room, so it
\* never waits (Sleep).
Solo == {1}

NextSolo ==
    \/ \E i \in Solo : Invoke(i)
    \/ \E i \in Solo : LoopMinute(i)
    \/ \E i \in Solo : WhileMinute(i)
    \/ \E i \in Solo : WhileSecond(i)
    \/ \E i \in Solo : CsMinute(i)
    \/ \E i \in Solo : CsSecond(i)
    \/ \E i \in Solo : CsExec(i)
    \/ \E i \in Solo : MarkProcessing(i)
    \/ \E i \in Solo : ProjLookup(i)
    \/ \E i \in Solo : UpdateMany(i)
    \/ \E i \in Solo : DeleteMany(i)
    \/ \E i \in Solo : Triggers(i)
    \/ \E i \in Solo : Send(i)
    \/ \E i \in Solo : CreateEmail(i)
    \/ \E i \in Solo : MarkCompleted(i)
    \/ \E i \in Solo : MarkFailed(i)
    \/ \E i \in Solo : CampFind(i)
    \/ \E i \in Solo : CampCount(i)
    \/ \E i \in Solo : CampUpdate(i)
    \/ Tick
    \/ \E p \in Vanishing : DeleteProject(p)
    \/ \E c \in Campaign : DeleteCampaign(c)

SpecSolo == InitSolo /\ [][NextSolo]_vars

\* A reservation made by a dispatcher instance that is not modelled step by
\* step: its canSendEmail found room in both windows and ran its pipeline
\* (lines 64-82).
OtherReserve ==
    /\ variant = "A"
    /\ getCurrentMinuteCount < MAX_EMAILS_PER_MINUTE
    /\ getCurrentSecondCount < MAX_EMAILS_PER_SECOND
    /\ store' = IncrExpire(IncrExpire(store, getMinuteKey(now), MinuteKeyTtl),
                           getSecondKey(now), SecondKeyTtl)
    /\ admits' = Admit(admits, now)
    /\ UNCHANGED <<variant, recent, now, status, projectExists, campaign, sends, receipts, loc, faults, setup>>

\* One instance among other dispatchers: empty counters, every task PENDING,
\* store calls that may fail.
InitCrowd ==
    /\ variant = "A"
    /\ setup = [startCount |-> 0, mayFail |-> MaxFaults, bare |-> FALSE]
    /\ status = [t \in Task |-> "PENDING"]
    /\ InitRest

NextCrowd ==
    \/ \E i \in Solo : Invoke(i)
    \/ \E i \in Solo : LoopMinute(i)
    \/ \E i \in Solo : WhileMinute(i)
    \/ \E i \in Solo : WhileSecond(i)
    \/ \E i \in Solo : Sleep(i)
    \/ \E i \in Solo : CsMinute(i)
    \/ \E i \in Solo : CsSecond(i)
    \/ \E i \in Solo : CsExec(i)
    \/ \E i \in Solo : MarkProcessing(i)
    \/ \E i \in Solo : ProjLookup(i)
    \/ \E i \in Solo : Triggers(i)
    \/ \E i \in Solo : Send(i)
    \/ \E i \in Solo : CreateEmail(i)
    \/ \E i \in Solo : MarkCompleted(i)
    \/ \E i \in Solo : MarkFailed(i)
    \/ \E i \in Solo : CampFind(i)
    \/ \E i \in Solo : CampCount(i)
    \/ \E i \in Solo : CampUpdate(i)
    \/ OtherReserve
    \/ Tick

SpecCrowd == InitCrowd /\ [][NextCrowd]_vars

\* Either deployment.
Next == NextA \/ NextB

Spec == Init /\ [][Next]_vars

-----------------------------------------------------------------------------
\* Rate ceilings.

RECURSIVE SumAdmits(_)
SumAdmits(S) ==
    IF S = {} THEN 0
    ELSE LET t == CHOOSE x \in S : TRUE IN admits[t] + SumAdmits(S \ {t})

\* Reservations granted at instants whose second / minute / day bucket is b.
SecondAdmits(b) == SumAdmits({t \in DOMAIN admits : t \div MsPerSecond = b})
MinuteAdmits(b) == SumAdmits({t \in DOMAIN admits : t \div MsPerMinute = b})
DayAdmits(b) == SumAdmits({t \in DOMAIN admits : getDailyKey(t) = b})

\* Reservations granted in the one-second window that starts at instant w.
WindowAdmits(w) == SumAdmits({t \in DOMAIN admits : w <= t /\ t < w + MsPerSecond})

\* C1: in the per-minute / per-second dispatcher, with instances calling
\* canSendEmail concurrently, the reservations granted in one second bucket
\* never exceed MAX_EMAILS_PER_SECOND and those granted in one minute bucket
\* never exceed MAX_EMAILS_PER_MINUTE.
C1_CeilingsHeldA ==
    variant = "A" =>
        \A t \in DOMAIN admits :
            /\ SecondAdmits(t \div MsPerSecond) <= MAX_EMAILS_PER_SECOND
            /\ MinuteAdmits(t \div MsPerMinute) <= MAX_EMAILS_PER_MINUTE

\* C2: in the per-second / per-day dispatcher, the reservations granted by
\* tryRecordEmailSent never exceed MAX_EMAILS_PER_SECOND in any one-second
\* window (several reservations may carry the same millisecond) and never
\* exceed MAX_EMAILS_PER_DAY in one getDailyKey day.
C2_CeilingsHeldB ==
    variant = "B" =>
        \A t \in DOMAIN admits :
            /\ WindowAdmits(t) <= MAX_EMAILS_PER_SECOND
            /\ DayAdmits(getDailyKey(t)) <= MAX_EMAILS_PER_DAY

-----------------------------------------------------------------------------
\* Task status.

Rank(s) ==
    CASE s = "PENDING" -> 0
      [] s = "PROCESSING" -> 1
      [] OTHER -> 2

Terminal == {"COMPLETED", "FAILED"}

\* C3: a task's status never moves backward, whatever the overlap between
\* handleTasks invocations: a COMPLETED or FAILED task never becomes
\* PROCESSING or PENDING again and a PROCESSING task never becomes PENDING.
C3_StatusNeverBackward ==
    [][\A t \in Task : Rank(status'[t]) >= Rank(status[t])]_vars

\* Some invocation is running the project-vanish updateMany for the project
\* of task t.
CleanupStepFor(t) ==
    \E i \in Inst :
        \/ /\ loc[i].pc = "updateMany"
           /\ TaskProject(Cur(i)) = TaskProject(t)
        \/ \E u \in DOMAIN loc[i].thr :
              /\ loc[i].thr[u].pc = "updateMany"
              /\ TaskProject(u) = TaskProject(t)

-----------------------------------------------------------------------------
\* Reservation before send.

SendPcs == {"send", "createEmail"}

\* C5: in both dispatchers a call of EmailService.send for a task is preceded,
\* in the same invocation, by a reservation made for that task that returned
\* true.
C5_SendHasReservation ==
    \A i \in Inst :
        /\ loc[i].pc \in SendPcs => loc[i].canSend
        /\ \A t \in DOMAIN loc[i].thr :
              loc[i].thr[t].pc \in SendPcs => loc[i].thr[t].rsv = "granted"

\* A send has been made and its receipt stored.
C5_Witness == \E t \in Task : sends[t] > 0 /\ receipts[t] > 0

-----------------------------------------------------------------------------
\* Tasks without a reservation.

ProcPcs == {"markProcessing", "projLookup", "updateMany", "deleteMany", "triggers",
            "send", "createEmail", "markCompleted", "markFailed"}

\* No other instance has started an invocation.
Alone(i) == \A j \in Inst \ {i} : loc[j].runs = 0

C7_DeniedNotFailed ==
    variant = "B" =>
        \A i \in Inst : \A t \in DOMAIN loc[i].thr :
            loc[i].thr[t].rsv = "denied" => status[t] # "FAILED"

-----------------------------------------------------------------------------
\* Suppressed actions.

Suppressed(t) == HasNotevents(t) /\ TaskKind(t) = "suppressed"

-----------------------------------------------------------------------------
\* Project-vanish cleanup.

CleanupPcs == {"updateMany", "deleteMany"}

\* C9 as stated: once processTask has found the project of a task missing, no
\* task of that project is sent in the same pass, the tasks already fetched
\* into the same batch included.
C9_NoSendOnceMissing ==
    \A i \in Inst : \A t \in DOMAIN loc[i].thr : \A u \in DOMAIN loc[i].thr :
        loc[i].thr[t].pc \in CleanupPcs /\ TaskProject(u) = TaskProject(t) =>
            loc[i].thr[u].pc # "send"

\* C9: when processTask finds the project missing, the tasks of that project
\* that are PENDING at its updateMany are marked FAILED, are removed before
\* the pass returns, and are never sent: no send and no receipt exists for
\* them.  (A task of the project that was already PROCESSING is not covered.)
C9_CleanupFailsAndRemoves ==
    \A i \in Inst : \A t \in loc[i].cleaned :
        /\ ~projectExists[TaskProject(t)]
        /\ sends[t] = 0
        /\ receipts[t] = 0
        /\ status[t] \in {"FAILED", "PROCESSING", "DELETED"}
        /\ loc[i].pc = "returned" => status[t] = "DELETED"

\* A pass that ran the cleanup has returned.
C9_Witness ==
    \E i \in Inst : loc[i].pc = "returned" /\ loc[i].cleaned # {}

-----------------------------------------------------------------------------
\* Campaign reconciliation.

\* C10: checkAndMarkCampaignsFinished is about to write DELIVERED only when
\* the count it has just made of the campaign's PENDING and PROCESSING tasks
\* was 0 and the campaign it read was there and not yet DELIVERED.
C10_DeliveredOnlyAfterZero ==
    \A i \in Inst :
        loc[i].pc = "campUpdate" =>
            /\ loc[i].cnt = 0
            /\ loc[i].seen \notin {"none", "MISSING", "DELIVERED"}

\* A campaign has been marked DELIVERED.
C10_Witness == \E c \in Campaign : campaign[c].status = "DELIVERED"

\* C11: each campaign is written DELIVERED at most once: once its delivered
\* timestamp is set no later or concurrent reconciliation writes it again.
C11_DeliveredOnce == \A c \in Campaign : campaign[c].writes <= 1

\* C12: when checkAndMarkCampaignsFinished reads a campaign that is already
\* DELIVERED it goes on to the next campaign: it neither counts nor updates,
\* and the step changes no campaign and no task.
C12_DeliveredIsNoOp ==
    [][\A i \in Inst :
          /\ loc[i].pc = "campFind"
          /\ campaign[CurCampaign(i)].status = "DELIVERED"
          /\ loc'[i] # loc[i]
          => /\ campaign' = campaign
             /\ status' = status
             /\ loc'[i].pc \notin {"campCount", "campUpdate"}]_vars

\* A reconciliation has read a campaign that was already DELIVERED.
C12_Witness ==
    \E i \in Inst : \E c \in Campaign :
        /\ <<c, "DELIVERED">> \in loc[i].reconciled
        /\ campaign[c].status = "DELIVERED"

\* Campaigns the invocation has run checkAndMarkCampaignsFinished for.
Reconciled(i) == {p[1] : p \in loc[i].reconciled}

\* C13: when handleTasks of the per-minute / per-second dispatcher has sent
\* its response, checkAndMarkCampaignsFinished has been run for every campaign
\* that had a task reach COMPLETED in that invocation.
C13_ReconciledBeforeReturn ==
    variant = "A" =>
        \A i \in Inst :
            loc[i].pc = "returned" /\ loc[i].resp = "ok" =>
                \A k \in 1..Len(loc[i].completed) : loc[i].completed[k] \in Reconciled(i)

\* Every task of campaign c is COMPLETED or FAILED and no invocation is under
\* way.
AllSettled(c) ==
    /\ \A t \in Task : CampaignIdOf(t) = c => status[t] \in Terminal
    /\ \A i \in Inst : loc[i].pc \in {"idle", "returned"}

\* C14: once every task of a campaign is COMPLETED or FAILED, the campaign is
\* eventually DELIVERED (unless it is deleted or loses a task row meanwhile).
C14_EventuallyDelivered ==
    \A c \in Campaign :
        (AllSettled(c) /\ campaign[c].status = "SENDING")
            ~> (\/ campaign[c].status \in {"DELIVERED", "MISSING"}
                \/ \E t \in Task : CampaignIdOf(t) = c /\ status[t] \notin Terminal)

\* The tasks an invocation claimed.
Claimed(i) == SeqToSet(loc[i].batch)

\* C15 as stated: processed is the number of claimed tasks whose status was
\* set to COMPLETED or FAILED during the invocation, by whatever statement.
C15_ProcessedCountsEveryWrite ==
    variant = "A" =>
        \A i \in Inst :
            loc[i].pc = "returned" /\ loc[i].resp = "ok" =>
                loc[i].processed =
                    Cardinality(loc[i].settled \cup (loc[i].cleaned \cap Claimed(i)))

\* C15: processed is the number of claimed tasks whose own status update to
\* COMPLETED or FAILED (lines 195-198, 204-209) was made by the invocation;
\* tasks skipped or not reached are not among them.
C15_ProcessedCountsOwnWrites ==
    variant = "A" =>
        \A i \in Inst :
            loc[i].pc = "returned" /\ loc[i].resp = "ok" =>
                /\ loc[i].processed = Cardinality(loc[i].settled)
                /\ loc[i].settled \subseteq Claimed(i)
                /\ loc[i].settled \cap loc[i].skipped = {}

C15_Witness ==
    \E i \in Inst :
        /\ variant = "A"
        /\ loc[i].pc = "returned" /\ loc[i].resp = "ok"
        /\ loc[i].processed = 1
        /\ loc[i].skipped # {}
        /\ \E t \in loc[i].settled : status[t] = "FAILED"

\* The invocation found the rate budget used up: Variant A returned at the
\* minute ceiling, Variant B had a reservation refused.
RateStopped(i) ==
    \/ loc[i].limited
    \/ variant = "B" /\ \E t \in DOMAIN loc[i].thr : loc[i].thr[t].rsv = "denied"

\* C16: the response of an invocation that did no work or stopped early
\* because the rate budget was used up carries the field rateLimited.
C16_RateLimitedReported ==
    \A i \in Inst :
        loc[i].pc = "returned" /\ loc[i].resp = "ok" /\ RateStopped(i) =>
            "rateLimited" \in loc[i].fields

\* The claimed tasks that went on to processSingleTask.
Attempted(i) == Claimed(i) \ loc[i].skipped

\* The first invocation of a lone instance has returned and the clock is
\* still in the minute in which the instance started.
SoloSameMinute(i) ==
    /\ loc[i].pc = "returned" /\ loc[i].resp = "ok"
    /\ loc[i].runs = 1
    /\ getMinuteKey(now) = getMinuteKey(StartMs)

\* C17: a lone instance that starts in a minute whose counter holds c
\* processes at most MAX_EMAILS_PER_MINUTE - c tasks in one invocation made
\* within that minute.
C17_AtMostHeadroom ==
    \A i \in Solo :
        SoloSameMinute(i) =>
            Cardinality(Attempted(i)) <= MAX_EMAILS_PER_MINUTE - setup.startCount

\* The first invocation of a lone instance has returned; the tasks it claimed
\* were all the tasks stored and fit in the headroom of both windows, none
\* of them has a suppression event, every project exists, and no send, no
\* Email insert and no store call failed.
CleanRun(i) ==
    /\ loc[i].pc = "returned" /\ loc[i].resp = "ok"
    /\ loc[i].runs = 1
    /\ Claimed(i) # {}
    /\ \A t \in Task \ Claimed(i) : status[t] = "DELETED"
    /\ Cardinality(Claimed(i)) <= MAX_EMAILS_PER_MINUTE - setup.startCount
    /\ Cardinality(Claimed(i)) <= MAX_EMAILS_PER_SECOND
    /\ \A t \in Claimed(i) : ~HasNotevents(t)
    /\ \A p \in Project : projectExists[p]
    /\ loc[i].threw = {}
    /\ faults = 0

\* C18: in such a run every task is sent exactly once, has exactly one Email
\* row, is COMPLETED, and processed is the number of tasks.
C18_CleanRunSendsAll ==
    \A i \in Solo :
        CleanRun(i) =>
            /\ \A t \in Claimed(i) :
                  sends[t] = 1 /\ receipts[t] = 1 /\ status[t] = "COMPLETED"
            /\ loc[i].processed = Cardinality(Claimed(i))

C18_Witness ==
    \E i \in Solo :
        /\ CleanRun(i)
        /\ Cardinality(Claimed(i)) = 2
        /\ loc[i].processed = 2
        /\ \A t \in Claimed(i) : sends[t] = 1 /\ status[t] = "COMPLETED"

\* C19: when the processing of a task raised an exception (the send or the
\* Email insert failed), the invocation still attempts every other task it
\* claimed: at the response each claimed task has had its final status
\* written, or its row is gone, or it was left for want of a reservation.
C19_FailureDoesNotStopBatch ==
    \A i \in Inst :
        loc[i].pc = "returned" /\ loc[i].resp = "ok" /\ loc[i].threw # {} =>
            \A t \in Claimed(i) :
                \/ t \in loc[i].settled
                \/ t \in loc[i].skipped
                \/ status[t] = "DELETED"

C19_Witness ==
    \E i \in Inst :
        /\ loc[i].pc = "returned" /\ loc[i].resp = "ok"
        /\ \E j \in 1..Len(loc[i].batch) : \E k \in (j + 1)..Len(loc[i].batch) :
              /\ loc[i].batch[j] \in loc[i].threw
              /\ status[loc[i].batch[j]] = "FAILED"
              /\ loc[i].batch[k] \in loc[i].settled \ loc[i].threw
              /\ status[loc[i].batch[k]] = "COMPLETED"
              /\ sends[loc[i].batch[k]] >= 1

\* C20: a reservation attempt in which a counter-store call failed is denied:
\* canSendEmail never answers true after a failed read.
C20_FailedCallDenies ==
    \A i \in Solo : loc[i].faulted => ~loc[i].canSend

\* C21: every counter key in the store (minute and second buckets, daily
\* counter, recent sorted set) holds a non-negative count and has an
\* expiration that is still to come: no counter key lives forever.
C21_CountersExpire ==
    /\ \A k \in DOMAIN store :
          /\ store[k].n >= 0
          /\ store[k].exp # -1
          /\ store[k].exp > now
    /\ recent.members # {} => recent.exp > now

C21_Witness ==
    /\ variant = "B"
    /\ recent.members # {}
    /\ \E k \in DOMAIN store : k[1] = "daily" /\ store[k].n >= 2

\* C22: a task that has neither an Action nor a Campaign is never sent, has
\* no Email row, and is FAILED once it has been processed.
C22_BareTaskFails ==
    \A t \in Task :
        TaskKind(t) = "bare" =>
            /\ sends[t] = 0
            /\ receipts[t] = 0
            /\ status[t] # "COMPLETED"

\* C23: a task for which EmailService.send threw has no Email row and is
\* never left COMPLETED.
C23_SendFailureIsFinal ==
    variant = "A" =>
        \A i \in Inst : \A t \in loc[i].sendThrew :
            receipts[t] = 0 /\ status[t] # "COMPLETED"

\* The tasks of invocation i that are in flight: their PROCESSING update has
\* been made and their callback has not ended.
InFlight(i) ==
    {t \in DOMAIN loc[i].thr : loc[i].thr[t].pc \notin {"markProcessing", "done"}}

\* C24: in the per-second / per-day dispatcher no more than MAX_PARALLEL
\* tasks of one invocation are in flight at the same time.
C24_ParallelBounded ==
    variant = "B" =>
        \A i \in Inst : Cardinality(InFlight(i)) <= MAX_PARALLEL

\* C25: for each claimed task the reservation loop makes at most MAX_RETRIES
\* iterations, whatever other dispatchers do to the counters.
C25_LoopBounded ==
    \A i \in Inst : loc[i].iters <= MAX_RETRIES

\* C26: over any interleaving of handleTasks invocations EmailService.send is
\* called at most once for a task and at most one Email row is created for it.
C26_AtMostOneSend ==
    \A t \in Task : sends[t] <= 1 /\ receipts[t] <= 1

\* C27: a campaign that is DELIVERED has no task PENDING or PROCESSING.
C27_DeliveredHasNoOpenTask ==
    \A c \in Campaign :
        campaign[c].status = "DELIVERED" =>
            \A t \in Task : CampaignIdOf(t) = c => status[t] \notin {"PENDING", "PROCESSING"}

\* This step is the updateMany or the deleteMany of a project-vanish cleanup
\* for project p.
CleanupMoves(p) ==
    \E i \in Inst :
        \/ /\ loc[i].pc \in {"updateMany", "deleteMany"}
           /\ loc'[i].pc # loc[i].pc
           /\ TaskProject(Cur(i)) = p
        \/ \E u \in DOMAIN loc[i].thr :
              /\ loc[i].thr[u].pc \in {"updateMany", "deleteMany"}
              /\ loc'[i].pc = "running"
              /\ loc'[i].thr[u].pc # loc[i].thr[u].pc
              /\ TaskProject(u) = p

\* C28 as stated: the cleanup neither modifies nor deletes a task that is
\* already PROCESSING, COMPLETED or FAILED, and leaves other projects alone.
C28_CleanupOnlyPending ==
    [][\A p \in Project :
          CleanupMoves(p) =>
              \A t \in Task :
                  /\ TaskProject(t) # p => status'[t] = status[t]
                  /\ status[t] \in {"PROCESSING", "COMPLETED", "FAILED"} =>
                        status'[t] = status[t]]_vars

\* C28: the cleanup leaves the tasks of other projects unchanged; its
\* updateMany changes only PENDING tasks of the vanished project, to FAILED;
\* its deleteMany removes the tasks of that project whatever their status.
C28_CleanupFrame ==
    [][\A p \in Project :
          CleanupMoves(p) =>
              \A t \in Task :
                  /\ TaskProject(t) # p => status'[t] = status[t]
                  /\ status'[t] # status[t] =>
                        \/ status[t] = "PENDING" /\ status'[t] = "FAILED"
                        \/ status'[t] = "DELETED"]_vars

C28_Witness ==
    /\ \E i \in Inst : loc[i].cleaned # {}
    /\ \E p \in Project :
          /\ ~projectExists[p]
          /\ \A t \in Task : TaskProject(t) = p => status[t] = "DELETED"
          /\ \E t \in Task : TaskProject(t) # p /\ status[t] = "COMPLETED"

\* The claimed tasks that invocation i marked PROCESSING: in the per-minute
\* dispatcher the tasks that went on to processSingleTask, in the other one
\* every task of the batch.
MarkedProcessing(i) == IF variant = "A" THEN Attempted(i) ELSE Claimed(i)

\* C29: when an invocation returns, no task it marked PROCESSING is still
\* PROCESSING.
C29_NoneLeftProcessing ==
    \A i \in Inst :
        loc[i].pc = "returned" /\ loc[i].resp = "ok" =>
            \A t \in MarkedProcessing(i) : status[t] # "PROCESSING"

\* C30: in the per-minute dispatcher a task that is COMPLETED was dropped by
\* the suppression check, with no send and no Email row, or had exactly one
\* send and exactly one Email row.
C30_CompletedMeansSentOnce ==
    variant = "A" =>
        \A t \in Task :
            status[t] = "COMPLETED" =>
                \/ HasNotevents(t) /\ sends[t] = 0 /\ receipts[t] = 0
                \/ sends[t] = 1 /\ receipts[t] = 1

====
